---- MODULE Spec2Model ----
(***************************************************************************)
(* Calendar application: the REST backend of server/src/index.ts (users,   *)
(* events, bearer tokens) together with the client's registration form.    *)
(* Every route handler is one action, except the two handlers that touch   *)
(* the store twice (register: findOne then save; update: findOne then      *)
(* save), which are two actions each so that requests interleave between   *)
(* their store accesses. A handler is an operator from the state and the   *)
(* request to its response and the store it leaves; the action applies it, *)
(* and a property of responses quantifies over the requests in each state. *)
(*                                                                         *)
(* Spec is the whole application. It is checked by halves: SpecAuth takes  *)
(* the auth routes with every input, the clock and one protected route;    *)
(* SpecEvents takes the event routes with every input, with each browser   *)
(* registered under one account and the clock at rest; SpecOwner takes    *)
(* them with both browsers working under the same account. The auth routes *)
(* leave the Event collection alone and the event routes leave the User    *)
(* collection alone.                                                       *)
(***************************************************************************)
EXTENDS Integers, FiniteSets, Sequences, TLC

(* ------------------------------ bounds -------------------------------- *)
\* events ever created (ObjectIds are never reused)
MaxEvents == 2
\* the clock advances in steps of TickStep hours up to MaxClock hours
TickStep == 12
MaxClock == 36

(* ------------------------- program constants -------------------------- *)
\* jwt.sign(..., { expiresIn: '24h' }), in hours
TokenValidity == 24
\* validateForm: password.length < 6
MinPasswordLength == 6

(* ------------------------------ inputs -------------------------------- *)
Clients == {"c1", "c2"}
Usernames == {"alice", "bob"}
Emails == {"a@x.io", "b@x.io"}
Passwords == {"12345", "123456"}
Titles == {"Standup", "Retro"}
Dates == {"2024-01-02T09:00:00Z"}
\* the unique indexes admit at most one user per email
UserIds == 1..Cardinality(Emails)
EventIds == 1..MaxEvents

Secret == "JWT_SECRET"
None == [kind |-> "none"]
Idle == [stage |-> "idle"]

VARIABLES
  users,         \* Credential Store: the User collection
  events,        \* Event Store: the Event collection
  nextEventId,   \* the next fresh Event ObjectId
  clock,         \* hours since the server started
  localStorage,  \* per client: the token of the last successful auth response
  inflight,      \* per client: the request suspended between two store accesses
  createdBy,     \* history: event id -> user id of the token that created it
  registered     \* history: the successful registrations, with their plaintext

vars == <<users, events, nextEventId, clock, localStorage, inflight,
          createdBy, registered>>

(* ------------------------------ bcrypt --------------------------------- *)
\* bcrypt.hash(password, salt): the salt is kept in the hash string
bcryptHash(password, salt) ==
  [alg |-> "2a$10", salt |-> salt, digest |-> <<salt, password>>]

\* mutant: the candidate is hashed under a salt of its own and the strings compared
bcryptCompareFreshSalt(password, hash) ==
  [alg |-> "2a$10", salt |-> hash.salt + 1, digest |-> <<hash.salt + 1, password>>] = hash

\* bcrypt.compare(password, hash): re-hash with the hash's salt and compare
bcryptCompare(password, hash) ==
  bcryptHash(password, hash.salt) = hash

\* bcrypt.genSalt(10): the salt drawn for the user being saved
genSalt(id) == id * 31 + 7

(* ---------------------------- jsonwebtoken ----------------------------- *)
\* jwt.sign({ userId }, secret, { expiresIn: '24h' })
jwtSign(userId, secret, now) ==
  [kind |-> "jwt", userId |-> userId, iat |-> now, exp |-> now + TokenValidity,
   sig |-> secret]

\* mutant: a token is still accepted at the instant it expires
jwtVerifyOkLate(token, secret, now) ==
  /\ token.kind = "jwt"
  /\ token.sig = secret
  /\ now <= token.exp

\* jwt.verify: the signature matches and the token has not expired
jwtVerifyOk(token, secret, now) ==
  /\ token.kind = "jwt"
  /\ token.sig = secret
  /\ now < token.exp

(* --------------------------- auth middleware --------------------------- *)
\* req.header('Authorization')?.replace('Bearer ', '')
HeaderToken(header) ==
  IF header.kind = "absent" THEN None ELSE header.token

\* mutant: the token is decoded, its signature never verified
authDecodesOnly(header, now) ==
  /\ HeaderToken(header).kind = "jwt"
  /\ now < HeaderToken(header).exp

\* auth: next() is called iff a token is present and jwt.verify accepts it
authPasses(header, now) ==
  /\ HeaderToken(header).kind # "none"
  /\ HeaderToken(header).kind # "empty"
  /\ jwtVerifyOk(HeaderToken(header), Secret, now)

\* req.user = decoded
authUser(header) == HeaderToken(header).userId

Unauthenticated == [status |-> 401, message |-> "Please authenticate", body |-> None]
ServerError == [status |-> 500, message |-> "Something went wrong!", body |-> None]

\* the Authorization headers a client can send
Bearer(t) == [kind |-> "bearer", token |-> t]
Headers(c) ==
  {[kind |-> "absent"], Bearer([kind |-> "empty"]), Bearer([kind |-> "garbage"])}
  \cup (IF localStorage[c].kind = "jwt"
        THEN {Bearer(localStorage[c]), Bearer([localStorage[c] EXCEPT !.sig = "forged"])}
        ELSE {})

(* ---------------------------- Credential Store ------------------------- *)
\* User.findOne({ $or: [{ email }, { username }] })
findUserByEmailOrUsername(email, username) ==
  {u \in users : u.email = email \/ u.username = username}

\* User.findOne({ email })
findUserByEmail(email) == {u \in users : u.email = email}

\* mutant: the schema declares no unique index
noUniqueIndex(doc) == TRUE

\* the unique indexes of userSchema reject a save that repeats a key (E11000)
uniqueIndexAllows(doc) ==
  \A u \in users : u.username # doc.username /\ u.email # doc.email

NewUserId == Cardinality(users) + 1

RegisterBodies == [username : Usernames, email : Emails, password : Passwords]
LoginBodies == [email : Emails, password : Passwords]

Init ==
  /\ users = {}
  /\ events = {}
  /\ nextEventId = 1
  /\ clock = 0
  /\ localStorage = [c \in Clients |-> None]
  /\ inflight = [c \in Clients |-> Idle]
  /\ createdBy = [i \in {} |-> 0]
  /\ registered = {}

(* ------------------------- POST /api/register -------------------------- *)
DuplicateUser == [status |-> 400, message |-> "User already exists", body |-> None]
Pending == [status |-> 0, message |-> "", body |-> None]

\* lines 108-115: the existence check; a hit answers 400, a miss goes on
registerCheck(body) ==
  IF findUserByEmailOrUsername(body.email, body.username) # {}
  THEN DuplicateUser ELSE Pending

\* lines 117-137: hash, save under the unique indexes, sign, answer 201;
\* a rejected save goes to next(error), which answers 500
registerSave(body) ==
  LET id == NewUserId
      user == [_id |-> id, username |-> body.username, email |-> body.email,
               password |-> bcryptHash(body.password, genSalt(id))]
  IN IF uniqueIndexAllows(user)
     THEN [res |-> [status |-> 201, message |-> "",
                    body |-> [token |-> jwtSign(id, Secret, clock),
                              user |-> [id |-> id, username |-> body.username,
                                        email |-> body.email]]],
           users |-> users \cup {user}]
     ELSE [res |-> ServerError, users |-> users]

PostRegister(c, body) ==
  /\ inflight[c] = Idle
  /\ inflight' = IF registerCheck(body) = Pending
                 THEN [inflight EXCEPT ![c] = [stage |-> "register.save", body |-> body]]
                 ELSE inflight
  /\ UNCHANGED <<users, events, nextEventId, clock, localStorage, createdBy, registered>>

RegisterSave(c) ==
  /\ inflight[c].stage = "register.save"
  /\ LET body == inflight[c].body
         out == registerSave(body)
     IN /\ users' = out.users
        /\ IF out.res.status = 201
           THEN /\ registered' = registered \cup
                     {[id |-> out.res.body.user.id, email |-> body.email,
                       password |-> body.password]}
                \* Register.tsx: localStorage.setItem('token', response.data.token)
                /\ localStorage' = [localStorage EXCEPT ![c] = out.res.body.token]
           ELSE UNCHANGED <<registered, localStorage>>
  /\ inflight' = [inflight EXCEPT ![c] = Idle]
  /\ UNCHANGED <<events, nextEventId, clock, createdBy>>

\* Register.tsx validateForm
validateForm(form) ==
  /\ ~(Len(form.password) < MinPasswordLength)
  /\ ~(form.password # form.confirmPassword)

RegisterForms ==
  [username : Usernames, email : Emails, password : Passwords,
   confirmPassword : Passwords]

\* Register.tsx handleSubmit: the form is posted only when it validates
handleSubmit(c, form) ==
  /\ validateForm(form)
  /\ PostRegister(c, [username |-> form.username, email |-> form.email,
                      password |-> form.password])

(* --------------------------- POST /api/login --------------------------- *)
InvalidCredentials == [status |-> 400, message |-> "Invalid credentials", body |-> None]

\* mutant: an unknown email is told apart from a wrong password
loginResponseLeaky(body) ==
  LET found == findUserByEmail(body.email) IN
  IF found = {} THEN [status |-> 404, message |-> "User not found", body |-> None]
  ELSE LET user == CHOOSE u \in found : TRUE IN
       IF ~bcryptCompare(body.password, user.password) THEN InvalidCredentials
       ELSE [status |-> 200, message |-> "",
             body |-> [token |-> jwtSign(user._id, Secret, clock),
                       user |-> [id |-> user._id, username |-> user.username,
                                 email |-> body.email]]]

\* the response of the login handler, lines 145-168
loginResponse(body) ==
  LET found == findUserByEmail(body.email) IN
  IF found = {} THEN InvalidCredentials
  ELSE LET user == CHOOSE u \in found : TRUE IN
       IF ~bcryptCompare(body.password, user.password) THEN InvalidCredentials
       ELSE [status |-> 200, message |-> "",
             body |-> [token |-> jwtSign(user._id, Secret, clock),
                       user |-> [id |-> user._id, username |-> user.username,
                                 email |-> body.email]]]

PostLogin(c, body) ==
  /\ inflight[c] = Idle
  /\ localStorage' = IF loginResponse(body).status = 200
                     THEN [localStorage EXCEPT ![c] = loginResponse(body).body.token]
                     ELSE localStorage
  /\ UNCHANGED <<users, events, nextEventId, clock, inflight, createdBy, registered>>

(* ------------------------------ Event Store ---------------------------- *)
\* { ...a, ...b } and Object.assign(a, b): b's fields win
objSpread(a, b) ==
  [k \in DOMAIN a \cup DOMAIN b |-> IF k \in DOMAIN b THEN b[k] ELSE a[k]]

\* the objects of S, and each of them with field k set to a value of V
WithField(S, k, V) ==
  S \cup {objSpread(f, [x \in {k} |-> v]) : f \in S, v \in V}

EmptyBody == [x \in {} |-> 0]

\* the JSON bodies of the event routes: any subset of the fields
EventBodies ==
  WithField(WithField(WithField({EmptyBody}, "title", Titles), "date", Dates),
            "userId", UserIds)

\* mutant: the spread comes last, so the body's userId wins
newEventBodyLast(body, userId) == objSpread([userId |-> userId], body)

\* new Event({ ...req.body, userId: req.user?.userId })
newEvent(body, userId) == objSpread(body, [userId |-> userId])

\* eventSchema: userId, title and date are required
validates(doc) == {"userId", "title", "date"} \subseteq DOMAIN doc

\* Event.find({ userId })
findEvents(userId) == {e \in events : e.userId = userId}

\* Event.findOne({ _id, userId })
findOneEvent(id, userId) == {e \in events : e._id = id /\ e.userId = userId}

\* Object.assign(event, req.body)
assignBody(doc, body) == objSpread(doc, body)

\* the paths save() sends in $set: those whose value differs from the loaded one
modifiedPaths(loaded, doc) ==
  {k \in DOMAIN doc : k \notin DOMAIN loaded \/ doc[k] # loaded[k]}

NotFound == [status |-> 404, message |-> "Event not found", body |-> None]

(* --------------------------- POST /api/events -------------------------- *)
\* lines 175-186 behind auth: the response and the Event collection left
postEvent(header, body) ==
  IF ~authPasses(header, clock)
  THEN [res |-> Unauthenticated, events |-> events]
  ELSE LET doc == newEvent(body, authUser(header)) IN
       IF validates(doc)
       THEN LET saved == objSpread(doc, [_id |-> nextEventId]) IN
            [res |-> [status |-> 201, message |-> "", body |-> saved],
             events |-> events \cup {saved}]
       ELSE [res |-> ServerError, events |-> events]

PostEvent(c, header, body) ==
  /\ inflight[c] = Idle
  /\ LET out == postEvent(header, body) IN
     /\ events' = out.events
     /\ IF out.res.status = 201
        THEN /\ nextEventId <= MaxEvents
             /\ nextEventId' = nextEventId + 1
             /\ createdBy' = [i \in DOMAIN createdBy \cup {nextEventId} |->
                                IF i = nextEventId THEN authUser(header)
                                ELSE createdBy[i]]
        ELSE UNCHANGED <<nextEventId, createdBy>>
  /\ UNCHANGED <<users, clock, localStorage, inflight, registered>>

(* ---------------------------- GET /api/events -------------------------- *)
\* lines 188-195 behind auth
getEvents(header) ==
  IF ~authPasses(header, clock) THEN Unauthenticated
  ELSE [status |-> 200, message |-> "", body |-> findEvents(authUser(header))]

GetEvents(c, header) ==
  /\ inflight[c] = Idle
  /\ getEvents(header).status \in {200, 401}
  /\ UNCHANGED vars

(* -------------------------- PUT /api/events/:id ------------------------ *)
\* lines 197-205 behind auth: the owner-scoped findOne and Object.assign; a hit
\* goes on to save() with the document and its modified paths
putEvent(header, id, body) ==
  IF ~authPasses(header, clock) THEN [res |-> Unauthenticated]
  ELSE IF findOneEvent(id, authUser(header)) = {} THEN [res |-> NotFound]
  ELSE LET loaded == CHOOSE e \in findOneEvent(id, authUser(header)) : TRUE
           doc == assignBody(loaded, body)
       IN [res |-> Pending, event |-> doc, modified |-> modifiedPaths(loaded, doc)]

PutEvent(c, header, id, body) ==
  /\ inflight[c] = Idle
  /\ LET out == putEvent(header, id, body) IN
     inflight' = IF out.res = Pending
                 THEN [inflight EXCEPT ![c] =
                         [stage |-> "update.save", event |-> out.event,
                          modified |-> out.modified]]
                 ELSE inflight
  /\ UNCHANGED <<users, events, nextEventId, clock, localStorage, createdBy, registered>>

\* mutant: save() writes the whole document back, inserting it when it is gone
updateSaveUpserts(pending, throwsWhenGone) ==
  LET doc == pending.event
      stored == {e \in events : e._id = doc._id}
  IN [res |-> [status |-> 200, message |-> "", body |-> doc],
      events |-> (events \ stored) \cup {doc}]

\* lines 206-207: save() updates the stored document of that _id with the
\* modified paths; when the document is gone meanwhile the update matches
\* nothing, which save() reports as an error or not, by the mongoose version
updateSave(pending, throwsWhenGone) ==
  LET doc == pending.event
      stored == {e \in events : e._id = doc._id}
      delta == [k \in pending.modified |-> doc[k]]
  IN IF stored = {} /\ throwsWhenGone
     THEN [res |-> ServerError, events |-> events]
     ELSE [res |-> [status |-> 200, message |-> "", body |-> doc],
           events |-> (events \ stored) \cup {objSpread(e, delta) : e \in stored}]

UpdateSave(c, throwsWhenGone) ==
  /\ inflight[c].stage = "update.save"
  /\ events' = updateSave(inflight[c], throwsWhenGone).events
  /\ inflight' = [inflight EXCEPT ![c] = Idle]
  /\ UNCHANGED <<users, nextEventId, clock, localStorage, createdBy, registered>>

(* ------------------------ DELETE /api/events/:id ----------------------- *)
\* lines 213-224 behind auth: findOneAndDelete is one atomic store operation
deleteEvent(header, id) ==
  IF ~authPasses(header, clock)
  THEN [res |-> Unauthenticated, events |-> events]
  ELSE IF findOneEvent(id, authUser(header)) = {}
  THEN [res |-> NotFound, events |-> events]
  ELSE [res |-> [status |-> 200, message |-> "Event deleted", body |-> None],
        events |-> events \ findOneEvent(id, authUser(header))]

DeleteEvent(c, header, id) ==
  /\ inflight[c] = Idle
  /\ events' = deleteEvent(header, id).events
  /\ UNCHANGED <<users, nextEventId, clock, localStorage, inflight, createdBy, registered>>

(* ------------------------------- time ---------------------------------- *)
Tick ==
  /\ clock + TickStep <= MaxClock
  /\ clock' = clock + TickStep
  /\ UNCHANGED <<users, events, nextEventId, localStorage, inflight,
                 createdBy, registered>>

(* --------------------------- specifications --------------------------- *)
\* the account each browser registers and then works with
AccountForm(c) ==
  IF c = "c1"
  THEN [username |-> "alice", email |-> "a@x.io", password |-> "123456",
        confirmPassword |-> "123456"]
  ELSE [username |-> "bob", email |-> "b@x.io", password |-> "123456",
        confirmPassword |-> "123456"]

\* the auth routes with every input, the clock, and a protected route
NextAuth ==
  \/ \E c \in Clients, body \in RegisterBodies : PostRegister(c, body)
  \/ \E c \in Clients, form \in RegisterForms : handleSubmit(c, form)
  \/ \E c \in Clients : RegisterSave(c)
  \/ \E c \in Clients, body \in LoginBodies : PostLogin(c, body)
  \/ \E c \in Clients : \E header \in Headers(c) : GetEvents(c, header)
  \/ Tick

\* the event routes with every input, each browser registered with its account
NextEvents ==
  \/ \E c \in Clients : handleSubmit(c, AccountForm(c))
  \/ \E c \in Clients : RegisterSave(c)
  \/ \E c \in Clients : \E header \in Headers(c), body \in EventBodies :
        PostEvent(c, header, body)
  \/ \E c \in Clients : \E header \in Headers(c) : GetEvents(c, header)
  \/ \E c \in Clients : \E header \in Headers(c), id \in EventIds, body \in EventBodies :
        PutEvent(c, header, id, body)
  \/ \E c \in Clients, throwsWhenGone \in BOOLEAN : UpdateSave(c, throwsWhenGone)
  \/ \E c \in Clients : \E header \in Headers(c), id \in EventIds :
        DeleteEvent(c, header, id)

\* the credentials of an account
AccountLogin(c) ==
  [email |-> AccountForm(c).email, password |-> AccountForm(c).password]

\* the event routes with every input, both browsers working with one account:
\* either registers it, the other logs in to it
NextOwner ==
  \/ \E c \in Clients : handleSubmit(c, AccountForm("c1"))
  \/ \E c \in Clients : RegisterSave(c)
  \/ \E c \in Clients : PostLogin(c, AccountLogin("c1"))
  \/ \E c \in Clients : \E header \in Headers(c), body \in EventBodies :
        PostEvent(c, header, body)
  \/ \E c \in Clients : \E header \in Headers(c) : GetEvents(c, header)
  \/ \E c \in Clients : \E header \in Headers(c), id \in EventIds, body \in EventBodies :
        PutEvent(c, header, id, body)
  \/ \E c \in Clients, throwsWhenGone \in BOOLEAN : UpdateSave(c, throwsWhenGone)
  \/ \E c \in Clients : \E header \in Headers(c), id \in EventIds :
        DeleteEvent(c, header, id)

Next == NextAuth \/ NextEvents \/ NextOwner

Spec == Init /\ [][Next]_vars
SpecAuth == Init /\ [][NextAuth]_vars
SpecEvents == Init /\ [][NextEvents]_vars
SpecOwner == Init /\ [][NextOwner]_vars

(* ------------------------------- claims -------------------------------- *)
\* the headers that pass auth for a client, and the user they name
ValidHeaders(c) == {h \in Headers(c) : authPasses(h, clock)}

\* a header with no token, a malformed token or a token with a bad signature
BadHeader(h) ==
  \/ h.kind = "absent"
  \/ h.token.kind \in {"empty", "garbage"}
  \/ h.token.kind = "jwt" /\ h.token.sig # Secret

\* a registered user holds the email or the username of the body
Held(body) ==
  \E u \in users : u.email = body.email \/ u.username = body.username

\* C1: GET /api/events with B's token never returns an event created by
\* another user, and PUT or DELETE with B's token on the id of an event owned
\* by another user answers 404 and leaves the Event Store as it is.
C1_CrossUserIsolation ==
  \A c \in Clients : \A h \in ValidHeaders(c) :
    /\ \A e \in getEvents(h).body : createdBy[e._id] = authUser(h)
    /\ \A e \in events : e.userId # authUser(h) =>
         /\ \A body \in EventBodies : putEvent(h, e._id, body).res = NotFound
         /\ deleteEvent(h, e._id) = [res |-> NotFound, events |-> events]

\* C2: each stored event's owner is the user whose verified token created it:
\* no update changes it.
C2_OwnerNeverChanges ==
  \A e \in events : e.userId = createdBy[e._id]

\* C3: CreateEvent with a valid token and a body carrying title and date
\* persists exactly the returned event, and every event it persists is owned by
\* the token's user, whatever userId the body carries.
C3_CreateStampsTokenOwner ==
  \A c \in Clients : \A h \in ValidHeaders(c) : \A body \in EventBodies :
    LET out == postEvent(h, body) IN
    /\ ({"title", "date"} \subseteq DOMAIN body) => out.res.status = 201
    /\ out.res.status = 201 => out.events = events \cup {out.res.body}
    /\ \A e \in out.events \ events : e.userId = authUser(h)

\* C3 witness: both users are registered, an event is stored, and a create
\* whose body names the other user is answered 201 with the token's user as owner
C3_Witness ==
  /\ events # {}
  /\ \E c \in Clients : \E h \in ValidHeaders(c) : \E body \in EventBodies :
       /\ "userId" \in DOMAIN body
       /\ body.userId # authUser(h)
       /\ \E u \in users : u._id = body.userId
       /\ postEvent(h, body).res.status = 201
       /\ postEvent(h, body).res.body.userId = authUser(h)

\* C4: a registration whose email or username is held by a registered user
\* answers 400 'User already exists', with no token, and creates no user, at
\* the existence check and at the save of a request that lost a race.
C4_DuplicateRejected ==
  /\ \A body \in RegisterBodies : Held(body) => registerCheck(body) = DuplicateUser
  /\ \A c \in Clients :
       (inflight[c].stage = "register.save" /\ Held(inflight[c].body)) =>
         registerSave(inflight[c].body) = [res |-> DuplicateUser, users |-> users]

\* C5: no two user records share a username and no two share an email.
C5_UniqueUsers ==
  \A u1 \in users : \A u2 \in users :
    u1 # u2 => (u1.username # u2.username /\ u1.email # u2.email)

\* C5 witness: a user is stored while a request that passed the existence check
\* with the same email or username is still waiting to save
C5_Witness ==
  \E c \in Clients :
    /\ inflight[c].stage = "register.save"
    /\ Held(inflight[c].body)

\* C6: after a successful registration, a login with its email and password
\* answers 200 with a token that verifies and carries the registered user's id.
C6_LoginAfterRegister ==
  \A r \in registered :
    LET out == loginResponse([email |-> r.email, password |-> r.password]) IN
    /\ out.status = 200
    /\ out.body.token.userId = r.id
    /\ jwtVerifyOk(out.body.token, Secret, clock)

\* C6 witness: both browsers hold a token of user 1 although a second user has
\* registered since: user 1 has logged in after that registration
C6_Witness ==
  /\ Cardinality(users) = 2
  /\ \A c \in Clients : localStorage[c].kind = "jwt" /\ localStorage[c].userId = 1
  /\ \E c \in Clients : localStorage[c].iat > 0

\* C7: no user is registered with a password shorter than 6 characters, and a
\* registration with a password of 6 characters and a free username and email
\* succeeds.
C7_PasswordPolicy ==
  /\ \A r \in registered : Len(r.password) >= MinPasswordLength
  /\ \A body \in RegisterBodies :
       (Len(body.password) >= MinPasswordLength /\ ~Held(body)) =>
         /\ registerCheck(body) = Pending
         /\ registerSave(body).res.status = 201

\* C8: a protected request with no token, a malformed token or a token with an
\* invalid signature answers 401 with no event data and leaves the Event Store
\* as it is, on all four event routes.
C8_BadTokenShortCircuits ==
  \A c \in Clients : \A h \in Headers(c) : BadHeader(h) =>
    /\ getEvents(h) = Unauthenticated
    /\ \A body \in EventBodies :
         postEvent(h, body) = [res |-> Unauthenticated, events |-> events]
    /\ \A id \in EventIds :
         /\ deleteEvent(h, id) = [res |-> Unauthenticated, events |-> events]
         /\ \A body \in EventBodies : putEvent(h, id, body) = [res |-> Unauthenticated]

\* C8 witness: a browser can send the token of a user who owns an event with a
\* forged signature
C8_Witness ==
  \E c \in Clients : \E e \in events :
    /\ localStorage[c].kind = "jwt"
    /\ e.userId = localStorage[c].userId
    /\ Bearer([localStorage[c] EXCEPT !.sig = "forged"]) \in Headers(c)

\* C9: a minted token is rejected with 401 on every protected route exactly
\* when 24 hours or more have passed since it was minted.
C9_TokenExpiry ==
  \A c \in Clients : localStorage[c].kind = "jwt" =>
    LET t == localStorage[c]
        h == Bearer(t)
        expired == clock >= t.iat + TokenValidity
    IN /\ t.iat <= clock
       /\ (getEvents(h).status = 401) <=> expired
       /\ \A body \in EventBodies : (postEvent(h, body).res.status = 401) <=> expired
       /\ \A id \in EventIds :
            /\ (deleteEvent(h, id).res.status = 401) <=> expired
            /\ \A body \in EventBodies :
                 (putEvent(h, id, body).res.status = 401) <=> expired

\* C9 witness: one browser holds an expired token, the other a live one
C9_Witness ==
  \E c1 \in Clients : \E c2 \in Clients :
    /\ localStorage[c1].kind = "jwt"
    /\ clock >= localStorage[c1].exp
    /\ localStorage[c2].kind = "jwt"
    /\ localStorage[c2].iat < clock
    /\ clock < localStorage[c2].exp

\* a login body with a registered email and another password than its own
WrongPassword(body) ==
  \E r \in registered : r.email = body.email /\ r.password # body.password

\* a login body whose email no user has
UnknownEmail(body) == \A u \in users : u.email # body.email

ValidationError(res) == res.status = 400 /\ res.body = None

\* C11: CreateEvent with a valid token and a body without title or without
\* date answers 400, not 500, and persists no event.
C11_MissingFieldIs400 ==
  \A c \in Clients : \A h \in ValidHeaders(c) : \A body \in EventBodies :
    ~({"title", "date"} \subseteq DOMAIN body) =>
      /\ ValidationError(postEvent(h, body).res)
      /\ postEvent(h, body).events = events

\* the ids of the events that were created and are no longer stored
DeletedIds == {i \in DOMAIN createdBy : \A e \in events : e._id # i}

\* DeleteEvent on a deleted id answers 404 and changes nothing, no list holds a
\* deleted id, and a delete that answers 200 leaves no event of that id
DeleteSettled ==
  \A c \in Clients : \A h \in ValidHeaders(c) :
    /\ \A e \in getEvents(h).body : e._id \notin DeletedIds
    /\ \A id \in EventIds :
         LET out == deleteEvent(h, id) IN
         /\ out.res.status \in {200, 404}
         /\ id \in DeletedIds => out = [res |-> NotFound, events |-> events]
         /\ out.res.status = 200 => \A e \in out.events : e._id # id

====
